---- MODULE Spec2Model ----
(***************************************************************************)
(* Model of the pod-modifier mutating admission webhook                   *)
(* (cmd/webhook.go, main.go): the HTTP handler serve, the mutation step   *)
(* mutate, the policy gate mutationRequired and the patch generation      *)
(* createPatch, with the JSON documents and the structural diff they      *)
(* work on.                                                                *)
(***************************************************************************)
EXTENDS Integers, Sequences, FiniteSets, TLC

VARIABLES
    annotation,         \* main.go: var annotation (set by flag.Parse before the server starts)
    ignoredNamespaces,  \* webhook.go: var ignoredNamespaces
    pc,                 \* per request: where the handler goroutine is
    input,              \* per request: the HTTP request (body, Content-Type)
    ar,                 \* per request: serve's local ar (the decoded AdmissionReview)
    admissionResponse,  \* per request: serve's local admissionResponse
    initializedPod,     \* per request: createPatch's local initializedPod, as it stood at return
    calls,              \* per request: the functions the handler has called so far
    written             \* per request: what the handler wrote to its http.ResponseWriter

vars == <<annotation, ignoredNamespaces, pc, input, ar, admissionResponse,
          initializedPod, calls, written>>

-----------------------------------------------------------------------------
(* Bounds of the model *)

NumRequests == 2
MaxContainers == 2
MaxOverrideContainers == 2
MaxOverridePods == 2

Requests == 1..NumRequests

-----------------------------------------------------------------------------
(* Optional values (Go pointers and absent JSON members): <<>> or <<x>> *)

None == <<>>
Some(x) == <<x>>
IsSome(o) == Len(o) = 1
Get(o) == o[1]

RECURSIVE SeqsOfLen(_, _)
SeqsOfLen(S, n) ==
    IF n = 0 THEN {<<>>}
    ELSE {<<x>> \o s : x \in S, s \in SeqsOfLen(S, n - 1)}

SeqsUpTo(S, lo, hi) == UNION {SeqsOfLen(S, n) : n \in lo..hi}

-----------------------------------------------------------------------------
(* Program constants *)

defaultAnnotation == "pod-modifier.solace.com/modify"
NamespaceSystem == "kube-system"
NamespacePublic == "kube-public"
StatusBadRequest == 400
StatusUnsupportedMediaType == 415
StatusOK == 200
PatchTypeJSONPatch == "JSONPatch"

-----------------------------------------------------------------------------
(* resource.Quantity: json.Unmarshal parses the text, json.Marshal writes  *)
(* the canonical form ("0.5" is written back as "500m").                   *)

ParseQuantity(s) ==
    CASE s = "0.5" -> [milli |-> 500,  suffix |-> ""]
      [] s = "500m" -> [milli |-> 500,  suffix |-> ""]
      [] s = "0.2" -> [milli |-> 200,  suffix |-> ""]
      [] s = "1"   -> [milli |-> 1000, suffix |-> ""]
      [] s = "2Gi" -> [milli |-> 2000, suffix |-> "Gi"]

QuantityString(q) ==
    IF q.milli % 1000 = 0
    THEN ToString(q.milli \div 1000) \o q.suffix
    ELSE ToString(q.milli) \o "m"

-----------------------------------------------------------------------------
(* JSON documents: tagged values. An object is a function from member     *)
(* names to documents, an array a sequence of documents.                  *)

JNull == [t |-> "null", v |-> "null"]
JStr(s) == [t |-> "str", v |-> s]
JObj(f) == [t |-> "obj", v |-> f]
JArr(s) == [t |-> "arr", v |-> s]

EmptyMap == <<>>

\* f restricted to the member names in D
Restrict(f, D) == [k \in D |-> f[k]]
\* f with member k set to x (added when absent)
Put(f, k, x) == [j \in (DOMAIN f) \cup {k} |-> IF j = k THEN x ELSE f[j]]
\* the members of f and g, g's winning
Merge(f, g) == [j \in (DOMAIN f) \cup (DOMAIN g) |-> IF j \in DOMAIN g THEN g[j] ELSE f[j]]

-----------------------------------------------------------------------------
(* corev1.Pod as the handler sees it: the fields the handler reads or     *)
(* writes (name, namespace, annotations, containers' name and resources)  *)
(* and one more container field (image) that it must leave alone.         *)

ResourceRequirements(limits, requests) == [Limits |-> limits, Requests |-> requests]
Container(name, image, resources) == [Name |-> name, Image |-> image, Resources |-> resources]
Pod(name, namespace, annotations, containers) ==
    [Name |-> name, Namespace |-> namespace, Annotations |-> annotations,
     Containers |-> containers]

\* The text of a document that does not parse (not JSON, or JSON of another shape)
BadText == [valid |-> FALSE]

\* json.Unmarshal of a resource list: every quantity text is parsed
UnmarshalResourceList(raw) == [k \in DOMAIN raw |-> ParseQuantity(raw[k])]

UnmarshalContainer(raw) ==
    Container(raw.name, raw.image,
              ResourceRequirements(UnmarshalResourceList(raw.resources.limits),
                                   UnmarshalResourceList(raw.resources.requests)))

\* json.Unmarshal(raw, &pod) for a document of the Pod shape. Annotation
\* values are strings to this decoder: they are kept as they are.
UnmarshalPodDoc(raw) ==
    Pod(raw.name, raw.namespace, raw.annotations,
        [i \in 1..Len(raw.containers) |-> UnmarshalContainer(raw.containers[i])])

\* json.Unmarshal(req.Object.Raw, &pod)
UnmarshalPod(raw) ==
    IF raw.valid
    THEN [err |-> None, pod |-> Some(UnmarshalPodDoc(raw))]
    ELSE [err |-> Some("json: cannot unmarshal object into Go value of type v1.Pod"),
          pod |-> None]

\* Variant: a decoder that takes any text and yields an empty config for what
\* it cannot parse
UnmarshalConfigLenient(text) ==
    [err |-> None,
     c |-> [Pods |-> IF text.valid
                     THEN [i \in 1..Len(text.Pods) |-> UnmarshalPodDoc(text.Pods[i])]
                     ELSE <<>>]]

\* json.Unmarshal([]byte(podDefinitionAnnotation), &c) into config{Pods []corev1.Pod}
UnmarshalConfig(text) ==
    IF text.valid
    THEN [err |-> None,
          c |-> [Pods |-> [i \in 1..Len(text.Pods) |-> UnmarshalPodDoc(text.Pods[i])]]]
    ELSE [err |-> Some("invalid character in annotation value"),
          c |-> [Pods |-> <<>>]]

\* json.Marshal of a resource list (omitempty: an empty list is left out by the caller)
MarshalResourceList(rl) == JObj([k \in DOMAIN rl |-> JStr(QuantityString(rl[k]))])

MarshalResources(r) ==
    JObj(Merge(IF DOMAIN r.Limits = {} THEN EmptyMap
               ELSE [k \in {"limits"} |-> MarshalResourceList(r.Limits)],
               IF DOMAIN r.Requests = {} THEN EmptyMap
               ELSE [k \in {"requests"} |-> MarshalResourceList(r.Requests)]))

MarshalContainer(c) ==
    JObj(Merge([k \in {"name", "resources"} |->
                   IF k = "name" THEN JStr(c.Name) ELSE MarshalResources(c.Resources)],
               IF c.Image = "" THEN EmptyMap ELSE [k \in {"image"} |-> JStr(c.Image)]))

MarshalMeta(p) ==
    JObj(Merge(Merge([k \in {"creationTimestamp"} |-> JNull],
                     IF p.Name = "" THEN EmptyMap ELSE [k \in {"name"} |-> JStr(p.Name)]),
               Merge(IF p.Namespace = "" THEN EmptyMap
                     ELSE [k \in {"namespace"} |-> JStr(p.Namespace)],
                     IF DOMAIN p.Annotations = {} THEN EmptyMap
                     ELSE [k \in {"annotations"} |->
                              JObj([a \in DOMAIN p.Annotations |-> JStr(p.Annotations[a])])])))

\* json.Marshal(pod)
MarshalPod(p) ==
    JObj([k \in {"metadata", "spec", "status"} |->
            CASE k = "metadata" -> MarshalMeta(p)
              [] k = "spec" ->
                   JObj([j \in {"containers"} |->
                           JArr([i \in 1..Len(p.Containers) |-> MarshalContainer(p.Containers[i])])])
              [] k = "status" -> JObj(EmptyMap)])

-----------------------------------------------------------------------------
(* jsonpatch.CreatePatch(oldData, newData): the structural diff of two    *)
(* JSON objects. A path is the sequence of its reference tokens           *)
(* ("/spec/containers/0" is <<"spec", "containers", "0">>). Go ranges     *)
(* over a map in an unspecified order: the order is a parameter, rev.     *)

NewPatch(op, path, value) == [op |-> op, path |-> path, value |-> value]

KeyOrder ==
    <<"annotations", "containers", "cpu", "creationTimestamp", "image", "limits",
      "memory", "metadata", "name", "namespace", "requests", "resources", "spec",
      "status">>

RECURSIVE SetToSeq(_)
SetToSeq(S) ==
    IF S = {} THEN <<>>
    ELSE LET x == CHOOSE y \in S : TRUE IN <<x>> \o SetToSeq(S \ {x})

Reverse(s) == [i \in 1..Len(s) |-> s[Len(s) + 1 - i]]

\* the subsequence of keys that are in D
RECURSIVE KeysIn(_, _)
KeysIn(keys, D) ==
    IF keys = <<>> THEN <<>>
    ELSE (IF Head(keys) \in D THEN <<Head(keys)>> ELSE <<>>) \o KeysIn(Tail(keys), D)

\* The member names in D in the order one range over the map visits them
RangeOrder(D, rev) ==
    LET known == KeysIn(KeyOrder, D)
        rest == SetToSeq(D \ {KeyOrder[i] : i \in 1..Len(KeyOrder)})
    IN IF rev THEN Reverse(known \o rest) ELSE known \o rest

makePath(path, key) == Append(path, key)

\* Each operator returns the operations it appends to the patch, in order.
RECURSIVE handleValues(_, _, _, _)
RECURSIVE diff(_, _, _, _)
RECURSIVE diffRangeB(_, _, _, _, _)
RECURSIVE diffRangeA(_, _, _, _)
RECURSIVE handleArray(_, _, _, _, _)

\* handleValues: av and bv have the same type
handleValues(av, bv, p, rev) ==
    CASE av.t = "obj" -> diff(av.v, bv.v, p, rev)
      [] av.t = "str" -> IF av.v = bv.v THEN <<>> ELSE <<NewPatch("replace", p, bv)>>
      [] av.t = "arr" -> handleArray(av.v, bv.v, p, rev, 1)
      [] av.t = "null" -> <<>>

\* the element-wise comparison of two arrays of one length (createPatch never
\* changes the length of a sequence, so the unequal-length branch is not taken)
handleArray(at, bt, p, rev, i) ==
    IF i > Len(bt) THEN <<>>
    ELSE handleValues(at[i], bt[i], makePath(p, ToString(i - 1)), rev)
         \o handleArray(at, bt, p, rev, i + 1)

\* for key, bv := range b: added members, members of another type, members to compare
diffRangeB(a, b, path, rev, keys) ==
    IF keys = <<>> THEN <<>>
    ELSE LET key == Head(keys)
             p == makePath(path, key)
         IN (IF key \notin DOMAIN a THEN <<NewPatch("add", p, b[key])>>
             ELSE IF a[key].t # b[key].t THEN <<NewPatch("replace", p, b[key])>>
             ELSE handleValues(a[key], b[key], p, rev))
            \o diffRangeB(a, b, path, rev, Tail(keys))

\* for key := range a: removed members
diffRangeA(a, b, path, keys) ==
    IF keys = <<>> THEN <<>>
    ELSE LET key == Head(keys)
         IN (IF key \notin DOMAIN b
             THEN <<NewPatch("remove", makePath(path, key), JNull)>>
             ELSE <<>>)
            \o diffRangeA(a, b, path, Tail(keys))

diff(a, b, path, rev) ==
    diffRangeB(a, b, path, rev, RangeOrder(DOMAIN b, rev))
    \o diffRangeA(a, b, path, RangeOrder(DOMAIN a, rev))

CreatePatch(oldData, newData, rev) == diff(oldData.v, newData.v, <<>>, rev)

-----------------------------------------------------------------------------
(* The application of a patch to a document (RFC 6902), as the API server *)
(* applies the webhook's answer.                                           *)

IndexOf(token, n) == CHOOSE i \in 1..n : ToString(i - 1) = token

RECURSIVE ApplyOp(_, _, _)
ApplyOp(doc, op, path) ==
    LET key == Head(path) IN
    IF doc.t = "arr"
    THEN LET i == IndexOf(key, Len(doc.v))
         IN JArr([doc.v EXCEPT ![i] =
                    IF Len(path) = 1 THEN op.value ELSE ApplyOp(doc.v[i], op, Tail(path))])
    ELSE IF Len(path) > 1
         THEN JObj([doc.v EXCEPT ![key] = ApplyOp(doc.v[key], op, Tail(path))])
         ELSE CASE op.op = "add" -> JObj(Put(doc.v, key, op.value))
                [] op.op = "replace" -> JObj([doc.v EXCEPT ![key] = op.value])
                [] op.op = "remove" -> JObj(Restrict(doc.v, (DOMAIN doc.v) \ {key}))

RECURSIVE ApplyPatch(_, _)
ApplyPatch(doc, patch) ==
    IF patch = <<>> THEN doc
    ELSE ApplyPatch(ApplyOp(doc, Head(patch), Head(patch).path), Tail(patch))

-----------------------------------------------------------------------------
(* mutationRequired, createPatch, mutate *)

\* Variant: only the first entry of the list is compared
mutationRequiredFirstOnly(ignoredList, metadata) ==
    ~ (Len(ignoredList) > 0 /\ metadata.Namespace = ignoredList[1])

\* mutationRequired(ignoredList, &pod.ObjectMeta)
mutationRequired(ignoredList, metadata) ==
    ~ \E i \in 1..Len(ignoredList) : metadata.Namespace = ignoredList[i]

\* []byte values: the empty slice, or the encoding of an operation sequence
\* (json.Marshal(patch) is "[]" at least, never empty)
EmptyBytes == [empty |-> TRUE, ops |-> <<>>]
MarshalPatch(patch) == [empty |-> FALSE, ops |-> patch]

\* Variant: initializedPod := pod, the same Pod under a second name
DeepCopyAlias(heap, ref) == [heap |-> heap, ref |-> ref]

\* createPatch works on pointers: heap is the sequence of Pod values pointed
\* to, a pointer an index in it. pod.DeepCopy() allocates a Pod of its own.
DeepCopy(heap, ref) == [heap |-> Append(heap, heap[ref]), ref |-> Len(heap) + 1]

\* for _, cpod = range c.Pods { if pod.ObjectMeta.Name == cpod.ObjectMeta.Name {...; break} }:
\* the index of the first entry of that name, 0 when there is none
FindPod(pods, name) ==
    IF \E i \in 1..Len(pods) : pods[i].Name = name
    THEN CHOOSE i \in 1..Len(pods) :
            pods[i].Name = name /\ \A j \in 1..(i - 1) : pods[j].Name # name
    ELSE 0

\* Variant: the override is merged into the container's requirements, member
\* by member
OverrideContainerMerged(containers, configContainer) ==
    [ii \in 1..Len(containers) |->
        IF configContainer.Name = containers[ii].Name
        THEN [containers[ii] EXCEPT
                !.Resources = ResourceRequirements(
                    Merge(@.Limits, configContainer.Resources.Limits),
                    Merge(@.Requests, configContainer.Resources.Requests))]
        ELSE containers[ii]]

\* the inner loop for one configContainer: every container of that name gets
\* configContainer.Resources
OverrideContainer(containers, configContainer) ==
    [ii \in 1..Len(containers) |->
        IF configContainer.Name = containers[ii].Name
        THEN [containers[ii] EXCEPT !.Resources = configContainer.Resources]
        ELSE containers[ii]]

\* the outer loop over cpod.Spec.Containers, in order
RECURSIVE OverrideContainers(_, _)
OverrideContainers(containers, configContainers) ==
    IF configContainers = <<>> THEN containers
    ELSE OverrideContainers(OverrideContainer(containers, Head(configContainers)),
                            Tail(configContainers))

\* found after the two loops: some configContainer has the name of some container
ContainerFound(containers, configContainers) ==
    \E i \in 1..Len(configContainers), ii \in 1..Len(containers) :
        configContainers[i].Name = containers[ii].Name

\* createPatch(pod), reading the process-wide annotation; rev is the order
\* in which the diff ranges over its maps
createPatch(pod, annotationFlag, rev) ==
    LET podRef == 1
        dc == DeepCopy(<<pod>>, podRef)
        a == pod.Annotations
        key == annotationFlag \o ".podDefinition"
        unchanged == dc.heap[dc.ref]
    IN
    IF key \notin DOMAIN a
    THEN [patchBytes |-> EmptyBytes, err |-> None, initializedPod |-> unchanged,
          calls |-> {"createPatch"}]
    ELSE
    LET u == UnmarshalConfig(a[key]) IN
    IF IsSome(u.err)
    THEN [patchBytes |-> EmptyBytes, err |-> u.err, initializedPod |-> unchanged,
          calls |-> {"createPatch", "json.Unmarshal(annotation)"}]
    ELSE
    LET n == FindPod(u.c.Pods, pod.Name) IN
    IF n = 0
    THEN [patchBytes |-> EmptyBytes, err |-> None, initializedPod |-> unchanged,
          calls |-> {"createPatch", "json.Unmarshal(annotation)"}]
    ELSE
    LET cpod == u.c.Pods[n]
        before == dc.heap[dc.ref].Containers
        heap == [dc.heap EXCEPT ![dc.ref].Containers =
                    OverrideContainers(before, cpod.Containers)]
    IN
    IF ~ ContainerFound(before, cpod.Containers)
    THEN [patchBytes |-> EmptyBytes, err |-> None, initializedPod |-> heap[dc.ref],
          calls |-> {"createPatch", "json.Unmarshal(annotation)"}]
    ELSE
    LET oldData == MarshalPod(heap[podRef])
        newData == MarshalPod(heap[dc.ref])
        patch == CreatePatch(oldData, newData, rev)
    IN [patchBytes |-> MarshalPatch(patch), err |-> None, initializedPod |-> heap[dc.ref],
        calls |-> {"createPatch", "json.Unmarshal(annotation)", "jsonpatch.CreatePatch"}]

\* v1.AdmissionResponse
AdmissionResponse(uid, allowed, result, patch, patchType) ==
    [UID |-> uid, Allowed |-> allowed, Result |-> result, Patch |-> patch,
     PatchType |-> patchType]

\* mutate(&ar). ar.Request is a pointer: req.Object.Raw on a nil req is a
\* nil dereference, a run-time panic.
mutate(review, annotationFlag, ignoredList, rev) ==
    IF ~ IsSome(review.Request)
    THEN [panic |-> TRUE, response |-> None, initializedPod |-> None, calls |-> {"mutate"}]
    ELSE
    LET req == Get(review.Request)
        u == UnmarshalPod(req.Object)
    IN
    IF IsSome(u.err)
    THEN [panic |-> FALSE,
          response |-> Some(AdmissionResponse("", FALSE, u.err, EmptyBytes, None)),
          initializedPod |-> None, calls |-> {"mutate"}]
    ELSE
    LET pod == Get(u.pod) IN
    IF ~ mutationRequired(ignoredList, pod)
    THEN [panic |-> FALSE,
          response |-> Some(AdmissionResponse("", TRUE, None, EmptyBytes, None)),
          initializedPod |-> None, calls |-> {"mutate", "mutationRequired"}]
    ELSE
    LET cp == createPatch(pod, annotationFlag, rev) IN
    IF IsSome(cp.err)
    THEN [panic |-> FALSE,
          response |-> Some(AdmissionResponse("", FALSE, cp.err, EmptyBytes, None)),
          initializedPod |-> Some(cp.initializedPod),
          calls |-> {"mutate", "mutationRequired"} \cup cp.calls]
    ELSE [panic |-> FALSE,
          response |-> Some(AdmissionResponse("", TRUE, None, cp.patchBytes,
                                              Some(PatchTypeJSONPatch))),
          initializedPod |-> Some(cp.initializedPod),
          calls |-> {"mutate", "mutationRequired"} \cup cp.calls]

-----------------------------------------------------------------------------
(* serve: the HTTP handler, one goroutine per request *)

JSONContentType == "application/json"

\* An HTTP request body as serve reads it.
\*   kind      "unreadable" (ioutil.ReadAll fails), "empty", "garbage" (bytes
\*             that are no JSON object) or "envelope" (an AdmissionReview document)
\*   complete  the envelope is well-formed to its end
\*   partial   for an envelope that is not: the decoder had filled ar.Request
\*             before it met the error (it decodes in place)
\*   request   the envelope's request member: its uid and object.raw
Body(kind, complete, partial, request) ==
    [kind |-> kind, complete |-> complete, partial |-> partial, request |-> request]

EnvelopeRequest(uid, object) == [uid |-> uid, object |-> object]

\* body after "if data, err := ioutil.ReadAll(r.Body); err == nil { body = data }"
BodyLen0(body) == body.kind \in {"unreadable", "empty"}

\* deserializer.Decode(body, nil, &ar)
Decode(body) ==
    LET req == IF IsSome(body.request)
               THEN Some([UID |-> Get(body.request).uid, Object |-> Get(body.request).object])
               ELSE None
    IN
    IF body.kind = "envelope" /\ body.complete
    THEN [err |-> None, ar |-> [Request |-> req]]
    ELSE [err |-> Some("couldn't get version/kind; json parse error"),
          ar |-> [Request |-> IF body.kind = "envelope" /\ body.partial THEN req ELSE None]]

\* json.Marshal(admissionReview): the response envelope on the wire. patch,
\* patchType and status are omitempty members.
MarshalReview(response) ==
    [uid |-> response.UID,
     allowed |-> response.Allowed,
     status |-> response.Result,
     patch |-> IF response.Patch.empty THEN None ELSE Some(response.Patch.ops),
     patchType |-> response.PatchType]

\* one write to the http.ResponseWriter
HttpError(code, text) == [code |-> code, text |-> text, envelope |-> None]
WriteEnvelope(env) == [code |-> StatusOK, text |-> "", envelope |-> Some(env)]

NoReview == [Request |-> None]

TypeOK ==
    /\ pc \in [Requests -> {"Idle", "Received", "Accepted", "Decoded", "Evaluated",
                            "Responded", "Rejected", "Panicked"}]
    /\ \A r \in Requests : Len(written[r]) <= 1

Init ==
    /\ annotation = defaultAnnotation
    /\ ignoredNamespaces = <<NamespaceSystem, NamespacePublic>>
    /\ pc = [r \in Requests |-> "Idle"]
    /\ input = [r \in Requests |-> None]
    /\ ar = [r \in Requests |-> NoReview]
    /\ admissionResponse = [r \in Requests |-> None]
    /\ initializedPod = [r \in Requests |-> None]
    /\ calls = [r \in Requests |-> {}]
    /\ written = [r \in Requests |-> <<>>]

\* The server accepts a request and starts serve for it in a goroutine of its own
Arrive(r, inputs) ==
    /\ pc[r] = "Idle"
    /\ \E in \in inputs : input' = [input EXCEPT ![r] = Some(in)]
    /\ pc' = [pc EXCEPT ![r] = "Received"]
    /\ UNCHANGED <<annotation, ignoredNamespaces, ar, admissionResponse, initializedPod,
                   calls, written>>

\* Variant: the Content-Type is checked before the body
serveReceiveTypeFirst(r) ==
    /\ pc[r] = "Received"
    /\ LET in == Get(input[r]) IN
       IF in.contentType # JSONContentType
       THEN /\ written' = [written EXCEPT ![r] =
                             Append(@, HttpError(StatusUnsupportedMediaType,
                                                 "invalid Content-Type"))]
            /\ pc' = [pc EXCEPT ![r] = "Rejected"]
       ELSE IF BodyLen0(in.body)
       THEN /\ written' = [written EXCEPT ![r] =
                             Append(@, HttpError(StatusBadRequest, "empty body"))]
            /\ pc' = [pc EXCEPT ![r] = "Rejected"]
       ELSE /\ written' = written
            /\ pc' = [pc EXCEPT ![r] = "Accepted"]
    /\ UNCHANGED <<annotation, ignoredNamespaces, input, ar, admissionResponse,
                   initializedPod, calls>>

\* serve, lines 183-201: the body and Content-Type checks
serveReceive(r) ==
    /\ pc[r] = "Received"
    /\ LET in == Get(input[r]) IN
       IF BodyLen0(in.body)
       THEN /\ written' = [written EXCEPT ![r] =
                             Append(@, HttpError(StatusBadRequest, "empty body"))]
            /\ pc' = [pc EXCEPT ![r] = "Rejected"]
       ELSE IF in.contentType # JSONContentType
       THEN /\ written' = [written EXCEPT ![r] =
                             Append(@, HttpError(StatusUnsupportedMediaType,
                                                 "invalid Content-Type"))]
            /\ pc' = [pc EXCEPT ![r] = "Rejected"]
       ELSE /\ written' = written
            /\ pc' = [pc EXCEPT ![r] = "Accepted"]
    /\ UNCHANGED <<annotation, ignoredNamespaces, input, ar, admissionResponse,
                   initializedPod, calls>>

\* Variant: ar is one package-level variable, which every handler decodes into
serveDecodeShared(r) ==
    /\ pc[r] = "Accepted"
    /\ LET d == Decode(Get(input[r]).body) IN
       /\ ar' = [q \in Requests |-> d.ar]
       /\ IF IsSome(d.err)
          THEN /\ admissionResponse' = [admissionResponse EXCEPT ![r] =
                      Some(AdmissionResponse("", FALSE, d.err, EmptyBytes, None))]
               /\ pc' = [pc EXCEPT ![r] = "Evaluated"]
          ELSE /\ admissionResponse' = admissionResponse
               /\ pc' = [pc EXCEPT ![r] = "Decoded"]
    /\ calls' = [calls EXCEPT ![r] = @ \cup {"deserializer.Decode"}]
    /\ UNCHANGED <<annotation, ignoredNamespaces, input, initializedPod, written>>

\* serve, lines 203-212: the envelope is decoded into ar; a failure builds
\* the response at once
serveDecode(r) ==
    /\ pc[r] = "Accepted"
    /\ LET d == Decode(Get(input[r]).body) IN
       /\ ar' = [ar EXCEPT ![r] = d.ar]
       /\ IF IsSome(d.err)
          THEN /\ admissionResponse' = [admissionResponse EXCEPT ![r] =
                      Some(AdmissionResponse("", FALSE, d.err, EmptyBytes, None))]
               /\ pc' = [pc EXCEPT ![r] = "Evaluated"]
          ELSE /\ admissionResponse' = admissionResponse
               /\ pc' = [pc EXCEPT ![r] = "Decoded"]
    /\ calls' = [calls EXCEPT ![r] = @ \cup {"deserializer.Decode"}]
    /\ UNCHANGED <<annotation, ignoredNamespaces, input, initializedPod, written>>

\* serve, line 213: admissionResponse = whsvr.mutate(&ar). A panic ends the
\* handler: net/http recovers it, logs it and closes the connection, and
\* nothing is written.
serveMutate(r) ==
    /\ pc[r] = "Decoded"
    /\ \E rev \in BOOLEAN :
         LET m == mutate(ar[r], annotation, ignoredNamespaces, rev) IN
         /\ admissionResponse' = [admissionResponse EXCEPT ![r] = m.response]
         /\ initializedPod' = [initializedPod EXCEPT ![r] = m.initializedPod]
         /\ calls' = [calls EXCEPT ![r] = @ \cup m.calls]
         /\ pc' = [pc EXCEPT ![r] = IF m.panic THEN "Panicked" ELSE "Evaluated"]
    /\ UNCHANGED <<annotation, ignoredNamespaces, input, ar, written>>

\* Variant: the uid is not copied into the response
serveRespondNoEcho(r) ==
    /\ pc[r] = "Evaluated"
    /\ written' = [written EXCEPT ![r] =
                     Append(@, WriteEnvelope(MarshalReview(Get(admissionResponse[r]))))]
    /\ pc' = [pc EXCEPT ![r] = "Responded"]
    /\ UNCHANGED <<annotation, ignoredNamespaces, input, ar, admissionResponse,
                   initializedPod, calls>>

\* serve, lines 216-233: the response envelope is built (the uid is copied
\* when ar.Request is not nil), encoded and written. json.Marshal does not
\* fail on a v1.AdmissionReview, whose members are strings, booleans and
\* byte slices.
serveRespond(r) ==
    /\ pc[r] = "Evaluated"
    /\ LET response == IF IsSome(ar[r].Request)
                       THEN [Get(admissionResponse[r]) EXCEPT !.UID = Get(ar[r].Request).UID]
                       ELSE Get(admissionResponse[r])
       IN /\ admissionResponse' = [admissionResponse EXCEPT ![r] = Some(response)]
          /\ written' = [written EXCEPT ![r] = Append(@, WriteEnvelope(MarshalReview(response)))]
    /\ pc' = [pc EXCEPT ![r] = "Responded"]
    /\ UNCHANGED <<annotation, ignoredNamespaces, input, ar, initializedPod, calls>>

-----------------------------------------------------------------------------
(* The requests the model sends *)

PodName == "test-run-solace-2"
OtherPodName == "test-run-solace-0"
InjectKey == "pod-modifier.solace.com/inject"
DefinitionKey == "pod-modifier.solace.com/modify.podDefinition"

RawResources(limits, requests) == [limits |-> limits, requests |-> requests]
RawContainer(name, image, resources) == [name |-> name, image |-> image, resources |-> resources]
RawPod(name, namespace, annotations, containers) ==
    [valid |-> TRUE, name |-> name, namespace |-> namespace, annotations |-> annotations,
     containers |-> containers]
\* the text of an annotation value that is an OverrideSpec document
OverrideText(pods) == [valid |-> TRUE, Pods |-> pods]
\* one entry of its "Pods" member
OverrideEntry(name, containers) == RawPod(name, "", EmptyMap, containers)

\* requests 0.5 cpu / 2Gi, the same written in canonical form, and a set of
\* requirements that differs from it by an added, a changed and a removed member
ResA == RawResources(EmptyMap, [cpu |-> "0.5", memory |-> "2Gi"])
ResACanonical == RawResources(EmptyMap, [cpu |-> "500m", memory |-> "2Gi"])
ResB == RawResources([cpu |-> "1"], [cpu |-> "0.2"])

PodContainerDocs ==
    {RawContainer("solace", "solace-pubsub", ResA),
     RawContainer("sidecar", "nginx", ResB)}

OverrideContainerDocs ==
    {RawContainer("solace", "", ResACanonical),
     RawContainer("solace", "", ResB),
     RawContainer("other", "", ResB)}

\* "Pods" lists: the first entry carries any container list, the entries
\* after it one of two
FirstEntries ==
    {OverrideEntry(n, cs) : n \in {PodName, OtherPodName},
                            cs \in SeqsUpTo(OverrideContainerDocs, 0, MaxOverrideContainers)}
LaterEntries ==
    {OverrideEntry(n, cs) : n \in {PodName, OtherPodName},
                            cs \in {<<>>, <<RawContainer("solace", "", ResB)>>}}
OverrideTexts ==
    {OverrideText(<<>>)} \cup
    {OverrideText(<<e>> \o rest) :
        e \in FirstEntries, rest \in SeqsUpTo(LaterEntries, 0, MaxOverridePods - 1)}

Annotated(text) == [k \in {InjectKey, DefinitionKey} |-> IF k = InjectKey THEN "true" ELSE text]
NotAnnotated == [k \in {InjectKey} |-> "true"]

Input(body, contentType) == [body |-> body, contentType |-> contentType]
Envelope(uid, object) == Body("envelope", TRUE, FALSE, Some(EnvelopeRequest(uid, object)))

\* Requests for the patch generation: a Pod of the default namespace with an
\* OverrideSpec annotation
PatchInputs ==
    {Input(Envelope("705ab4f5", RawPod(PodName, "default", Annotated(text), cs)),
           JSONContentType) :
        text \in OverrideTexts, cs \in SeqsUpTo(PodContainerDocs, 1, MaxContainers)}

\* Requests for the whole handler
TwoContainers ==
    <<RawContainer("solace", "solace-pubsub", ResA), RawContainer("sidecar", "nginx", ResB)>>
MatchingText ==
    OverrideText(<<OverrideEntry(OtherPodName, <<>>),
                   OverrideEntry(PodName, <<RawContainer("solace", "", ResB)>>)>>)
OtherNameText == OverrideText(<<OverrideEntry(OtherPodName, <<RawContainer("solace", "", ResB)>>)>>)
OtherContainerText == OverrideText(<<OverrideEntry(PodName, <<RawContainer("other", "", ResB)>>)>>)

AnnotationCases ==
    {NotAnnotated, Annotated(BadText), Annotated(MatchingText), Annotated(OtherNameText),
     Annotated(OtherContainerText)}

ServePods ==
    {RawPod(PodName, ns, a, TwoContainers) :
        ns \in {NamespaceSystem, NamespacePublic, "default"}, a \in AnnotationCases}

ServeBodies ==
    {Body("unreadable", FALSE, FALSE, None),
     Body("empty", FALSE, FALSE, None),
     Body("garbage", FALSE, FALSE, None),
     Body("envelope", TRUE, FALSE, None),
     Envelope("c2fd5c4a", BadText)}
    \cup {Body("envelope", FALSE, p, Some(EnvelopeRequest("c2fd5c4a", BadText))) : p \in BOOLEAN}
    \cup {Envelope("705ab4f5", pod) : pod \in ServePods}

ServeInputs ==
    {Input(b, ct) : b \in ServeBodies, ct \in {JSONContentType, "text/plain"}}

-----------------------------------------------------------------------------
(* Specifications *)

\* Requests for the concurrent server: one of each outcome
ConcurrentInputs ==
    {Input(Body("empty", FALSE, FALSE, None), JSONContentType),
     Input(Body("garbage", FALSE, FALSE, None), JSONContentType),
     Input(Body("envelope", TRUE, FALSE, None), JSONContentType),
     Input(Envelope("c2fd5c4a", BadText), JSONContentType)}
    \cup {Input(Envelope("705ab4f5", RawPod(PodName, ns, a, TwoContainers)), JSONContentType) :
            ns \in {"default"}, a \in {NotAnnotated, Annotated(BadText), Annotated(MatchingText)}}
    \cup {Input(Envelope("c2fd5c4a", RawPod(PodName, NamespaceSystem, Annotated(MatchingText),
                                           TwoContainers)), JSONContentType)}

Step(r) == serveReceive(r) \/ serveDecode(r) \/ serveMutate(r) \/ serveRespond(r)

\* one request through the handler
Next == Arrive(1, ServeInputs) \/ Step(1)

Spec == Init /\ [][Next]_vars

\* one request through the patch generation
NextPatch == Arrive(1, PatchInputs) \/ Step(1)

SpecPatch == Init /\ [][NextPatch]_vars

\* the server under concurrent requests: the handlers' steps interleave
NextConcurrent == \E r \in Requests : Arrive(r, ConcurrentInputs) \/ Step(r)

SpecConcurrent == Init /\ [][NextConcurrent]_vars

-----------------------------------------------------------------------------
(* What the properties below read off a request and its response *)

In(r) == Get(input[r])
Arrived(r) == pc[r] # "Idle"
PassesTransport(in) == ~ BodyLen0(in.body) /\ in.contentType = JSONContentType
\* the envelope decodes and carries a request object
EnvelopeDecodes(in) ==
    in.body.kind = "envelope" /\ in.body.complete /\ IsSome(in.body.request)
\* ... and the embedded object decodes as a Pod
HasPod(in) == EnvelopeDecodes(in) /\ Get(in.body.request).object.valid
PodOf(in) == Get(in.body.request).object
\* the uid the request document carries ("" when it carries none)
RequestUID(in) == IF IsSome(in.body.request) THEN Get(in.body.request).uid ELSE ""
ExcludedNamespaces == {"kube-system", "kube-public"}
ConfiguredKey == defaultAnnotation \o ".podDefinition"
HasAnnotation(pod) == ConfiguredKey \in DOMAIN pod.annotations
AnnotationOf(pod) == pod.annotations[ConfiguredKey]
\* the override entries whose name is the Pod's
NamedEntries(pod) ==
    {i \in 1..Len(AnnotationOf(pod).Pods) : AnnotationOf(pod).Pods[i].name = pod.name}
\* the entry that matches: the first of them
MatchedEntry(pod) ==
    AnnotationOf(pod).Pods[CHOOSE i \in NamedEntries(pod) : \A j \in NamedEntries(pod) : i <= j]
HasMatchedEntry(pod) ==
    HasAnnotation(pod) /\ AnnotationOf(pod).valid /\ NamedEntries(pod) # {}
\* the containers of the Pod that an override container of the matched entry names
MatchedContainers(pod) ==
    {ii \in 1..Len(pod.containers) :
        \E i \in 1..Len(MatchedEntry(pod).containers) :
            MatchedEntry(pod).containers[i].name = pod.containers[ii].name}
\* the outcome "no change": no annotation, no entry of the Pod's name, or no
\* container named by the entry
NoChange(pod) ==
    \/ ~ HasAnnotation(pod)
    \/ AnnotationOf(pod).valid /\ NamedEntries(pod) = {}
    \/ HasMatchedEntry(pod) /\ MatchedContainers(pod) = {}
Eligible(in) == PassesTransport(in) /\ HasPod(in) /\ PodOf(in).namespace \notin ExcludedNamespaces

Responded(r) == pc[r] = "Responded"
\* the response envelope a request got
ResponseOf(r) == Get(written[r][1].envelope)
PatchSteps == {"createPatch", "json.Unmarshal(annotation)", "jsonpatch.CreatePatch"}

-----------------------------------------------------------------------------
(* C1: a Pod in kube-system or kube-public, whatever its annotation, is    *)
(* answered allowed = true with no patch and no error, and neither the     *)
(* annotation parsing nor the patch generation is reached.                 *)
C1_NamespaceExclusion ==
    \A r \in Requests :
        (Arrived(r) /\ PassesTransport(In(r)) /\ HasPod(In(r))
            /\ PodOf(In(r)).namespace \in ExcludedNamespaces)
        => /\ calls[r] \cap PatchSteps = {}
           /\ pc[r] # "Panicked"
           /\ Responded(r) =>
                /\ ResponseOf(r).allowed = TRUE
                /\ ResponseOf(r).patch = None
                /\ ResponseOf(r).patchType = None
                /\ ResponseOf(r).status = None

C1_Witness ==
    \E r \in Requests :
        /\ Responded(r) /\ PassesTransport(In(r)) /\ HasPod(In(r))
        /\ PodOf(In(r)).namespace = "kube-public"
        /\ HasAnnotation(PodOf(In(r))) /\ ~ AnnotationOf(PodOf(In(r))).valid
        /\ ResponseOf(r).allowed

(* C2: every request whose envelope and Pod both decode is answered        *)
(* allowed = true, whatever the gate, the annotation parsing, the name     *)
(* matching and the patch generation do.                                   *)
C2_NeverBlocks ==
    \A r \in Requests :
        (Responded(r) /\ HasPod(In(r))) => ResponseOf(r).allowed = TRUE

(* C3, as claimed: the response's uid is the request's uid for every       *)
(* request that reaches the decode stage, whether the envelope decodes or  *)
(* not.                                                                    *)
C3_UidAlwaysEchoed ==
    \A r \in Requests : Responded(r) => ResponseOf(r).uid = RequestUID(In(r))

(* C3, amended: the response's uid is the request's uid for every request  *)
(* whose envelope decodes with a request object, whichever branch of       *)
(* mutate is taken; when the envelope does not decode, the response        *)
(* carries the uid only if the decoder had filled in the request object    *)
(* before the error, and an empty uid otherwise.                           *)
C3_UidEchoedWhenDecoded ==
    \A r \in Requests :
        Responded(r) =>
            /\ EnvelopeDecodes(In(r)) => ResponseOf(r).uid = RequestUID(In(r))
            /\ ~ (In(r).body.kind = "envelope" /\ In(r).body.complete) =>
                 ResponseOf(r).uid =
                    (IF In(r).body.kind = "envelope" /\ In(r).body.partial
                     THEN RequestUID(In(r)) ELSE "")

C3_Witness ==
    \E r \in Requests :
        /\ Responded(r) /\ HasPod(In(r))
        /\ PodOf(In(r)).namespace = "default"
        /\ HasAnnotation(PodOf(In(r))) /\ ~ AnnotationOf(PodOf(In(r))).valid
        /\ ResponseOf(r).uid = "705ab4f5"

(* C4: when the outcome is "no change" (no annotation at the key, no       *)
(* override entry of the Pod's name, no override container of a            *)
(* container's name) the response carries neither a patch nor a patch      *)
(* type; a patch is present only if a container matched.                   *)
C4_PatchOnlyWhenProduced ==
    \A r \in Requests :
        (Responded(r) /\ Eligible(In(r))) =>
            /\ NoChange(PodOf(In(r))) =>
                 ResponseOf(r).patch = None /\ ResponseOf(r).patchType = None
            /\ IsSome(ResponseOf(r).patch) =>
                 HasMatchedEntry(PodOf(In(r))) /\ MatchedContainers(PodOf(In(r))) # {}

\* the working copy createPatch built for a request whose Pod has a matched entry
Overridden(r) ==
    /\ pc[r] \in {"Evaluated", "Responded"}
    /\ Eligible(In(r))
    /\ HasMatchedEntry(PodOf(In(r)))
    /\ IsSome(initializedPod[r])
WorkingCopy(r) == Get(initializedPod[r])
DecodedPod(r) == UnmarshalPodDoc(PodOf(In(r)))
\* the override containers of the matched entry that carry a container's name
OverridesOf(r, ii) ==
    {i \in 1..Len(MatchedEntry(PodOf(In(r))).containers) :
        MatchedEntry(PodOf(In(r))).containers[i].name = PodOf(In(r)).containers[ii].name}
OverrideResources(r, i) ==
    UnmarshalContainer(MatchedEntry(PodOf(In(r))).containers[i]).Resources
\* every field but the containers' resources is the original's
FrameKept(r) ==
    /\ WorkingCopy(r).Name = DecodedPod(r).Name
    /\ WorkingCopy(r).Namespace = DecodedPod(r).Namespace
    /\ WorkingCopy(r).Annotations = DecodedPod(r).Annotations
    /\ Len(WorkingCopy(r).Containers) = Len(DecodedPod(r).Containers)
    /\ \A ii \in 1..Len(DecodedPod(r).Containers) :
          /\ WorkingCopy(r).Containers[ii].Name = DecodedPod(r).Containers[ii].Name
          /\ WorkingCopy(r).Containers[ii].Image = DecodedPod(r).Containers[ii].Image
          /\ OverridesOf(r, ii) = {} =>
                WorkingCopy(r).Containers[ii] = DecodedPod(r).Containers[ii]
\* the patch of the response at hand (empty when there is none)
PatchOps(r) == Get(admissionResponse[r]).Patch.ops
\* every operation lies under spec.containers[i].resources of a matched container
PatchInFrame(r) ==
    \A k \in 1..Len(PatchOps(r)) :
        LET path == PatchOps(r)[k].path IN
        /\ Len(path) >= 4
        /\ path[1] = "spec" /\ path[2] = "containers" /\ path[4] = "resources"
        /\ \E ii \in MatchedContainers(PodOf(In(r))) : path[3] = ToString(ii - 1)

(* C5, as claimed: with a matched entry, every container whose name is the *)
(* name of an override container of the entry has that override            *)
(* container's resource requirements as a whole; every other container and *)
(* field is the original's, and the patch touches only paths under         *)
(* spec.containers[i].resources of matched containers.                     *)
C5_EveryOverrideApplied ==
    \A r \in Requests :
        Overridden(r) =>
            /\ \A ii \in 1..Len(DecodedPod(r).Containers) : \A i \in OverridesOf(r, ii) :
                  WorkingCopy(r).Containers[ii].Resources = OverrideResources(r, i)
            /\ FrameKept(r)
            /\ PatchInFrame(r)

(* C5, amended: with a matched entry, every container whose name is the    *)
(* name of an override container of the entry (all of them when container  *)
(* names are duplicated) has, as a whole, the resource requirements of the *)
(* last override container of that name in the entry; every other          *)
(* container and field is the original's, and the patch touches only paths *)
(* under spec.containers[i].resources of matched containers.               *)
C5_LastOverrideApplied ==
    \A r \in Requests :
        Overridden(r) =>
            /\ \A ii \in 1..Len(DecodedPod(r).Containers) :
                  OverridesOf(r, ii) # {} =>
                     WorkingCopy(r).Containers[ii].Resources =
                        OverrideResources(r, CHOOSE i \in OverridesOf(r, ii) :
                                                \A j \in OverridesOf(r, ii) : j <= i)
            /\ FrameKept(r)
            /\ PatchInFrame(r)

\* two containers of one name, both overridden by an entry found behind another
C5_Witness ==
    \E r \in Requests :
        /\ Overridden(r)
        /\ Len(PodOf(In(r)).containers) = 2
        /\ PodOf(In(r)).containers[1].name = PodOf(In(r)).containers[2].name
        /\ 1 \notin NamedEntries(PodOf(In(r)))
        /\ \E k \in 1..Len(PatchOps(r)) : PatchOps(r)[k].path[3] = "0"
        /\ \E k \in 1..Len(PatchOps(r)) : PatchOps(r)[k].path[3] = "1"

(* C6: a Pod outside the excluded namespaces whose annotation value does   *)
(* not deserialize is answered with a non-empty diagnostic as the status   *)
(* message and no patch, and no container is changed.                      *)
C6_MalformedAnnotation ==
    \A r \in Requests :
        (Arrived(r) /\ Eligible(In(r)) /\ HasAnnotation(PodOf(In(r)))
            /\ ~ AnnotationOf(PodOf(In(r))).valid)
        => /\ pc[r] # "Panicked"
           /\ pc[r] \in {"Evaluated", "Responded"} =>
                /\ IsSome(Get(admissionResponse[r]).Result)
                /\ Get(Get(admissionResponse[r]).Result) # ""
                /\ Get(admissionResponse[r]).Patch.empty
                /\ IsSome(initializedPod[r])
                /\ WorkingCopy(r).Containers = DecodedPod(r).Containers
           /\ Responded(r) =>
                /\ IsSome(ResponseOf(r).status)
                /\ Get(ResponseOf(r).status) # ""
                /\ ResponseOf(r).patch = None

C6_Witness ==
    \E r \in Requests :
        /\ Responded(r) /\ Eligible(In(r)) /\ HasAnnotation(PodOf(In(r)))
        /\ ~ AnnotationOf(PodOf(In(r))).valid
        /\ IsSome(ResponseOf(r).status)

(* C7: every request that passes the transport checks ends in Responded    *)
(* with exactly one well-formed response envelope written; a failure       *)
(* (an envelope that does not decode or has no request object, a Pod that  *)
(* does not decode, an annotation or diff failure) gives an envelope with  *)
(* a failure message and no patch, never a missing response.               *)
C7_AlwaysOneEnvelope ==
    \A r \in Requests :
        (Arrived(r) /\ PassesTransport(In(r))) =>
            /\ pc[r] \in {"Received", "Accepted", "Decoded", "Evaluated", "Responded"}
            /\ Len(written[r]) = (IF Responded(r) THEN 1 ELSE 0)
            /\ Responded(r) =>
                 /\ IsSome(written[r][1].envelope)
                 /\ ~ HasPod(In(r)) =>
                       IsSome(ResponseOf(r).status) /\ ResponseOf(r).patch = None

(* C8: an empty or unreadable body, or a Content-Type other than           *)
(* application/json, is rejected with a 4xx status and no envelope, the    *)
(* envelope decode and the mutation are never invoked, and the body is     *)
(* checked before the Content-Type.                                        *)
C8_TransportRejection ==
    \A r \in Requests :
        (Arrived(r) /\ pc[r] # "Received" /\ ~ PassesTransport(In(r))) =>
            /\ pc[r] = "Rejected"
            /\ calls[r] = {}
            /\ ar[r] = NoReview /\ admissionResponse[r] = None
            /\ Len(written[r]) = 1
            /\ written[r][1].envelope = None
            /\ written[r][1].code \in 400..499
            /\ written[r][1].code =
                 (IF BodyLen0(In(r).body) THEN StatusBadRequest ELSE StatusUnsupportedMediaType)

C8_Witness ==
    \E r \in Requests :
        /\ pc[r] = "Rejected"
        /\ In(r).body.kind = "empty" /\ In(r).contentType # JSONContentType
        /\ written[r][1].code = StatusBadRequest

\* what serve answers to one request handled alone, under the configuration
\* the process started with; rev is the diff's map order
HandledAlone(in, rev) ==
    IF BodyLen0(in.body)
    THEN [pc |-> "Rejected", written |-> <<HttpError(StatusBadRequest, "empty body")>>]
    ELSE IF in.contentType # JSONContentType
    THEN [pc |-> "Rejected",
          written |-> <<HttpError(StatusUnsupportedMediaType, "invalid Content-Type")>>]
    ELSE
    LET d == Decode(in.body)
        m == mutate(d.ar, defaultAnnotation, <<NamespaceSystem, NamespacePublic>>, rev)
        uid == IF IsSome(d.ar.Request) THEN Get(d.ar.Request).UID ELSE ""
    IN
    IF IsSome(d.err)
    THEN [pc |-> "Responded",
          written |-> <<WriteEnvelope(MarshalReview(
                          AdmissionResponse(uid, FALSE, d.err, EmptyBytes, None)))>>]
    ELSE IF m.panic
    THEN [pc |-> "Panicked", written |-> <<>>]
    ELSE [pc |-> "Responded",
          written |-> <<WriteEnvelope(MarshalReview([Get(m.response) EXCEPT !.UID = uid]))>>]

Ended(r) == pc[r] \in {"Responded", "Rejected", "Panicked"}

(* C9: under every interleaving of concurrently handled requests each      *)
(* request ends as it does when handled alone, the handlers never write    *)
(* the annotation key or the excluded-namespace list, and a failure of     *)
(* one request changes no other request's outcome.                         *)
C9_RequestIndependence ==
    /\ [][annotation' = annotation /\ ignoredNamespaces' = ignoredNamespaces]_vars
    /\ [](\A r \in Requests :
            Ended(r) => \E rev \in BOOLEAN :
                          [pc |-> pc[r], written |-> written[r]] = HandledAlone(In(r), rev))

\* one request has panicked and another, handled beside it, got its patch
C9_Witness ==
    \E r, q \in Requests :
        /\ r # q
        /\ pc[r] = "Panicked"
        /\ Responded(q) /\ IsSome(ResponseOf(q).patch)

(* C10: the operations of diff(original, modified) applied to the original *)
(* Pod give the working copy, diff(X, X) is empty for every X (so an       *)
(* override equal to the existing requirements gives no operation), and    *)
(* the original handed to the diff is the unmodified input.                *)
C10_DiffRoundTrip ==
    \A r \in Requests :
        (Overridden(r) /\ ~ Get(admissionResponse[r]).Patch.empty) =>
            LET original == MarshalPod(DecodedPod(r))
                modified == MarshalPod(WorkingCopy(r))
            IN /\ ApplyPatch(original, PatchOps(r)) = modified
               /\ original = modified => PatchOps(r) = <<>>
               /\ \E rev \in BOOLEAN : PatchOps(r) = CreatePatch(original, modified, rev)
               /\ \A rev \in BOOLEAN :
                    /\ CreatePatch(original, original, rev) = <<>>
                    /\ CreatePatch(modified, modified, rev) = <<>>

\* a patch that adds, replaces and removes
C10_Witness ==
    \E r \in Requests :
        /\ Overridden(r) /\ ~ Get(admissionResponse[r]).Patch.empty
        /\ \A o \in {"add", "replace", "remove"} :
              \E k \in 1..Len(PatchOps(r)) : PatchOps(r)[k].op = o

====
